---- MODULE Spec2Model ----
(***************************************************************************)
(* Buffer pool allocator of the nRF 802.15.4 serialization layer            *)
(* (serialization/src/nrf_802154_buffer_allocator.c), built with            *)
(* CONFIG_NRF_802154_SER_BUFFER_ALLOCATOR_THREAD_SAFE and with assertions   *)
(* enabled.  One core: context 0 is normal (thread) execution, contexts     *)
(* 1..MaxIrqLevel are interrupt handlers of rising priority.  A handler     *)
(* starts only while PRIMASK is 0 and only over a lower context, and runs   *)
(* to its end before the preempted context resumes.  Every step of the      *)
(* allocator that reads or writes shared state is one action.               *)
(***************************************************************************)
EXTENDS Integers, Sequences, FiniteSets

VARIABLES
    p_memory,           \* p_obj->p_memory
    capacity,           \* p_obj->capacity
    taken,              \* p_buffer_pool[k].taken for the slots k of the pool
    primask,            \* the core's PRIMASK register: 1 = interrupts masked
    m_critical_section, \* the file-scope saved PRIMASK
    pc,                 \* per context: position in handler / allocator code
    i,                  \* per context: loop index of buffer_alloc (p_buffer = &pool[i])
    success,            \* per context: local `success` of buffer_alloc
    retry,              \* per context: local `retry` of buffer_alloc
    saved,              \* per context: register holding the value of __get_PRIMASK()
    func,               \* per context: the function running, "alloc" / "free" / "init"
    arg,                \* per context: p_buffer_to_free of buffer_free
    idx,                \* per context: local `idx` of buffer_free
    masked,             \* per context: the caller itself masked interrupts
    \* ---- history variables, read by the properties only ----
    held,               \* <<handle, slot>> returned by allocate, not yet given to release
    argSlot,            \* per context: the slot claimed for the handle being released
    entryMask,          \* per context: PRIMASK when its open call was entered
    preempted,          \* per context: a handler started during its open call
    firstFree,          \* per context: lowest free slot when its allocate call started
    owners,             \* per slot: allocate claims since the slot's last release
    wrote,              \* slots whose flag the write in the open critical section changed
    fresh,              \* results of the back-to-back allocates since initialize
    reuse,              \* progress of an allocate / release / allocate sequence
    scen,               \* progress of the capacity-3 scenario
    lastInit            \* the initialize that just returned: its memsize, whether it
                        \* found a flag set, and whether that was the flag of an
                        \* occupied slot of the pool before; NoInit once the pool is used
    , initArgs          \* memsize and p_memory of the initialize call that a failed
                        \* assertion stopped; NoArgs when none was
    , seen              \* per context: slots its current scan pass read as occupied
    , sawFull           \* every slot was occupied at some instant of the open
                        \* allocate call of thread level; kept until it claims a slot
    , setBy             \* per context: slots whose flag its open allocate call
                        \* changed from free to occupied
    , otherClaim        \* per context: another context claimed a slot since the
                        \* lock-free read of its open allocate call found its
                        \* candidate free; kept until the re-check under the lock

poolVars  == << p_memory, capacity >>
csVars    == << primask, m_critical_section >>
localVars == << i, success, retry, saved, func, arg, idx >>
callHist  == << argSlot, entryMask, preempted, firstFree >>
seqHist   == << fresh, reuse, scen, lastInit >>
passHist  == << seen, sawFull, setBy, otherClaim >>

vars == << p_memory, capacity, taken, primask, m_critical_section, pc, i, success,
           retry, saved, func, arg, idx, masked, held, argSlot, entryMask, preempted,
           firstFree, owners, wrote, fresh, reuse, scen, lastInit, initArgs,
           seen, sawFull, setBy, otherClaim >>

(***************************************************************************)
(* Bounds of the model.                                                    *)
(***************************************************************************)
MaxSlots    == 2    \* slots of the largest pool used with preemption
SeqSlots    == 3    \* slots of the largest pool used without preemption
MaxIrqLevel == 1    \* interrupt priority levels above thread level
DeepIrqLevel == 2   \* interrupt priority levels where handlers preempt handlers
WordBits    == 16   \* width of uintptr_t in the model's scaled-down address space

(***************************************************************************)
(* Machine and layout.                                                     *)
(***************************************************************************)
WordMod    == 2 ^ WordBits \* uintptr_t arithmetic wraps modulo the word size
NULL       == 0
SlotSize   == 4            \* sizeof(nrf_802154_buffer_t)
DataOffset == 0            \* offsetof(nrf_802154_buffer_t, data)
BaseAddr   == 16           \* address of the caller's backing memory

Ctx      == 0..DeepIrqLevel
\* the interrupt levels in use where handlers preempt thread level only
Levels   == 1..MaxIrqLevel
\* memory sizes of pools of up to n slots, with every remainder
MemSizes(n) == 0..(n * SlotSize + SlotSize - 1)
None     == 0 - 1   \* no slot, handle, size or mask
PoolSlots == 0..(capacity - 1)

\* &p_buffer_pool[k].data, the handle allocate returns for slot k
DataPtr(base, k) == (base + k * SlotSize + DataOffset) % WordMod

\* idx of buffer_free: ((uintptr_t)p - (uintptr_t)pool) / sizeof(nrf_802154_buffer_t)
FreeIdxSigned(p, base) == (p - base) \div SlotSize
FreeIdxBytes(p, base) == (p - base) % WordMod
FreeIdx(p, base) == ((p - base) % WordMod) \div SlotSize

\* the assertion of buffer_free
FreeAssert(k, len) == k < len

\* capacity of nrf_802154_buffer_allocator_init: memsize / sizeof(nrf_802154_buffer_t)
CapacityOf(memsize) == memsize \div SlotSize

\* the flags after the loop of nrf_802154_buffer_allocator_init over memory `flags`
InitFlagsSkipLast(flags, cap) == [k \in DOMAIN flags |-> IF k < cap - 1 THEN FALSE ELSE flags[k]]
InitFlags(flags, cap) == [k \in DOMAIN flags |-> IF k < cap THEN FALSE ELSE flags[k]]

\* the assertion of nrf_802154_buffer_allocator_init
InitAssertNonNull(cap, mem) == mem # NULL
InitAssert(cap, mem) == (cap = 0) \/ ((cap # 0) /\ (mem # NULL))

\* the context the core is executing: the highest one that is not idle
Running == CHOOSE c \in Ctx : pc[c] # "idle" /\ \A d \in Ctx : d > c => pc[d] = "idle"

InCall(c) == pc[c] \notin {"idle", "handler", "abort"}
Aborted   == \E c \in Ctx : pc[c] = "abort"

\* c may execute its next step
Runs(c) == ~Aborted /\ c = Running

\* the lowest slot that is free, capacity when none is
LowestFree == IF \E k \in PoolSlots : ~taken[k]
              THEN CHOOSE k \in PoolSlots : ~taken[k] /\ \A j \in 0..(k - 1) : taken[j]
              ELSE capacity

\* c's call ran alone: no handler started during it and no other call is open
Sequential(c) == ~preempted[c] /\ \A d \in Ctx \ {c} : ~InCall(d)

\* the value buffer_alloc returns: success ? p_buffer->data : NULL
RetValNoCheck(c) == DataPtr(p_memory, i[c])
RetVal(c) == IF success[c] THEN DataPtr(p_memory, i[c]) ELSE NULL

(***************************************************************************)
(* Progress records of call sequences.                                     *)
(***************************************************************************)
NoSeq == [ok |-> FALSE, res |-> << >>]
NoReuse == [stage |-> 0, h |-> NULL, r |-> NULL]
NoScen == [n |-> None, got |-> << >>]
NoInit == [size |-> None, dirty |-> FALSE, again |-> FALSE]
NoArgs == [size |-> None, mem |-> NULL]

\* the scenario: allocate A, B, C, D, release B, allocate E, release A, C, E,
\* allocate three times.  Step n is an allocate, or the release of got[ScenFree[n]].
ScenFree == << 0, 0, 0, 0, 2, 0, 1, 3, 5, 0, 0, 0 >>
ScenLen == Len(ScenFree)
ScenStart(cap) == IF cap = 3 THEN [n |-> 0, got |-> << >>] ELSE NoScen

ScenAfterAlloc(c, r) ==
    IF scen.n # None /\ scen.n < ScenLen /\ Sequential(c) /\ ScenFree[scen.n + 1] = 0
    THEN [n |-> scen.n + 1, got |-> Append(scen.got, r)]
    ELSE NoScen

ScenAfterFree(c, h) ==
    IF /\ scen.n # None /\ scen.n < ScenLen /\ Sequential(c)
       /\ ScenFree[scen.n + 1] # 0
       /\ scen.got[ScenFree[scen.n + 1]] = h
    THEN [n |-> scen.n + 1, got |-> scen.got]
    ELSE NoScen

FreshAfterAlloc(c, r) ==
    IF fresh.ok /\ Sequential(c) /\ Len(fresh.res) <= capacity
    THEN [ok |-> TRUE, res |-> Append(fresh.res, r)]
    ELSE NoSeq

ReuseAfterAlloc(c, r) ==
    IF Sequential(c) /\ reuse.stage = 2 THEN [stage |-> 3, h |-> reuse.h, r |-> r]
    ELSE IF Sequential(c) /\ r # NULL THEN [stage |-> 1, h |-> r, r |-> NULL]
    ELSE NoReuse

ReuseAfterFree(c, h) ==
    IF Sequential(c) /\ reuse.stage = 1 /\ reuse.h = h
    THEN [stage |-> 2, h |-> h, r |-> NULL]
    ELSE NoReuse

(***************************************************************************)
(* Initial state: thread level has just returned from                       *)
(* nrf_802154_buffer_allocator_init on memory of any content.               *)
(***************************************************************************)
InitWith(sizes) ==
    \E memsize \in sizes, mem \in {NULL, BaseAddr}, b \in BOOLEAN :
        /\ InitAssert(CapacityOf(memsize), mem)
        /\ p_memory = mem
        /\ capacity = CapacityOf(memsize)
        /\ taken = InitFlags([k \in 0..(CapacityOf(memsize) - 1) |-> b],
                             CapacityOf(memsize))
        /\ primask = 0
        /\ m_critical_section = 0
        /\ pc = [c \in Ctx |-> IF c = 0 THEN "handler" ELSE "idle"]
        /\ i = [c \in Ctx |-> 0]
        /\ success = [c \in Ctx |-> FALSE]
        /\ retry = [c \in Ctx |-> FALSE]
        /\ saved = [c \in Ctx |-> 0]
        /\ func = [c \in Ctx |-> "none"]
        /\ arg = [c \in Ctx |-> NULL]
        /\ idx = [c \in Ctx |-> 0]
        /\ masked = [c \in Ctx |-> FALSE]
        /\ held = {}
        /\ argSlot = [c \in Ctx |-> None]
        /\ entryMask = [c \in Ctx |-> None]
        /\ preempted = [c \in Ctx |-> FALSE]
        /\ firstFree = [c \in Ctx |-> None]
        /\ owners = [k \in 0..(CapacityOf(memsize) - 1) |-> 0]
        /\ wrote = {}
        /\ fresh = [ok |-> TRUE, res |-> << >>]
        /\ reuse = NoReuse
        /\ scen = ScenStart(CapacityOf(memsize))
        /\ lastInit = [size |-> memsize, dirty |-> b /\ CapacityOf(memsize) > 0,
                       again |-> FALSE]
        /\ initArgs = NoArgs
        /\ seen = [c \in Ctx |-> {}]
        /\ sawFull = FALSE
        /\ setBy = [c \in Ctx |-> {}]
        /\ otherClaim = [c \in Ctx |-> FALSE]

\* the frame of a call is gone when the call returns
Leave(c) ==
    /\ pc' = [pc EXCEPT ![c] = "handler"]
    /\ i' = [i EXCEPT ![c] = 0]
    /\ success' = [success EXCEPT ![c] = FALSE]
    /\ retry' = [retry EXCEPT ![c] = FALSE]
    /\ saved' = [saved EXCEPT ![c] = 0]
    /\ func' = [func EXCEPT ![c] = "none"]
    /\ arg' = [arg EXCEPT ![c] = NULL]
    /\ idx' = [idx EXCEPT ![c] = 0]
    /\ argSlot' = [argSlot EXCEPT ![c] = None]
    /\ entryMask' = [entryMask EXCEPT ![c] = None]
    /\ preempted' = [preempted EXCEPT ![c] = FALSE]
    /\ firstFree' = [firstFree EXCEPT ![c] = None]
    /\ seen' = [seen EXCEPT ![c] = {}]
    /\ sawFull' = IF c = 0 THEN FALSE ELSE sawFull
    /\ setBy' = [setBy EXCEPT ![c] = {}]
    /\ otherClaim' = [otherClaim EXCEPT ![c] = FALSE]

(***************************************************************************)
(* nrf_802154_buffer_allocator_init, called at thread level while no other  *)
(* call is open, on memory whose slots outside the old pool hold any value. *)
(* The handles of the previous pool are dead afterwards.                    *)
(***************************************************************************)
InitCall(memsize, mem, b) ==
    /\ Runs(0)
    /\ pc[0] = "handler"
    /\ IF InitAssert(CapacityOf(memsize), mem)
       THEN /\ p_memory' = mem
            /\ capacity' = CapacityOf(memsize)
            /\ taken' = InitFlags([k \in 0..(CapacityOf(memsize) - 1) |->
                                      IF k \in DOMAIN taken THEN taken[k] ELSE b],
                                  CapacityOf(memsize))
            /\ held' = {}
            /\ owners' = [k \in 0..(CapacityOf(memsize) - 1) |-> 0]
            /\ fresh' = [ok |-> TRUE, res |-> << >>]
            /\ reuse' = NoReuse
            /\ scen' = ScenStart(CapacityOf(memsize))
            /\ lastInit' = [size |-> memsize,
                            dirty |-> \E k \in 0..(CapacityOf(memsize) - 1) :
                                        IF k \in DOMAIN taken THEN taken[k] ELSE b,
                            again |-> \E k \in 0..(CapacityOf(memsize) - 1) :
                                        k \in DOMAIN taken /\ taken[k]]
            /\ UNCHANGED << pc, func, initArgs >>
       ELSE /\ pc' = [pc EXCEPT ![0] = "abort"]
            /\ func' = [func EXCEPT ![0] = "init"]
            /\ initArgs' = [size |-> memsize, mem |-> mem]
            /\ UNCHANGED << poolVars, taken, held, owners, seqHist >>
    /\ UNCHANGED << csVars, i, success, retry, saved, arg, idx, masked, callHist, wrote,
                    passHist >>

(***************************************************************************)
(* nrf_802154_buffer_allocator_alloc -> buffer_alloc                        *)
(***************************************************************************)
\* entry: p_buffer = NULL, success = false, retry = false; first pass starts at i = 0
AllocCallFromOne(c) ==
    /\ Runs(c)
    /\ pc[c] = "handler"
    /\ pc' = [pc EXCEPT ![c] = "a_scan"]
    /\ func' = [func EXCEPT ![c] = "alloc"]
    /\ i' = [i EXCEPT ![c] = 1]
    /\ success' = [success EXCEPT ![c] = FALSE]
    /\ retry' = [retry EXCEPT ![c] = FALSE]
    /\ entryMask' = [entryMask EXCEPT ![c] = primask]
    /\ preempted' = [preempted EXCEPT ![c] = FALSE]
    /\ firstFree' = [firstFree EXCEPT ![c] = LowestFree]
    /\ seen' = [seen EXCEPT ![c] = {}]
    /\ sawFull' = IF c = 0 THEN \A k \in PoolSlots : taken[k] ELSE sawFull
    /\ setBy' = [setBy EXCEPT ![c] = {}]
    /\ otherClaim' = [otherClaim EXCEPT ![c] = FALSE]
    /\ lastInit' = NoInit
    /\ UNCHANGED << poolVars, initArgs, taken, csVars, saved, arg, idx, masked, held, argSlot,
                    owners, wrote, fresh, reuse, scen >>

AllocCall(c) ==
    /\ Runs(c)
    /\ pc[c] = "handler"
    /\ pc' = [pc EXCEPT ![c] = "a_scan"]
    /\ func' = [func EXCEPT ![c] = "alloc"]
    /\ i' = [i EXCEPT ![c] = 0]
    /\ success' = [success EXCEPT ![c] = FALSE]
    /\ retry' = [retry EXCEPT ![c] = FALSE]
    /\ entryMask' = [entryMask EXCEPT ![c] = primask]
    /\ preempted' = [preempted EXCEPT ![c] = FALSE]
    /\ firstFree' = [firstFree EXCEPT ![c] = LowestFree]
    /\ seen' = [seen EXCEPT ![c] = {}]
    /\ sawFull' = IF c = 0 THEN \A k \in PoolSlots : taken[k] ELSE sawFull
    /\ setBy' = [setBy EXCEPT ![c] = {}]
    /\ otherClaim' = [otherClaim EXCEPT ![c] = FALSE]
    /\ lastInit' = NoInit
    /\ UNCHANGED << poolVars, initArgs, taken, csVars, saved, arg, idx, masked, held, argSlot,
                    owners, wrote, fresh, reuse, scen >>

\* one evaluation of the for loop's condition and, inside the pool, of
\* `if (!p_buffer->taken)`: the lock-free read of one flag
ScanLockFirst(c) ==
    /\ Runs(c)
    /\ pc[c] = "a_scan"
    /\ IF i[c] >= capacity
       THEN /\ pc' = [pc EXCEPT ![c] = "a_ret"]
            /\ i' = i
       ELSE /\ pc' = [pc EXCEPT ![c] = "cs_read"]
            /\ i' = i
    /\ seen' = seen
    /\ UNCHANGED << poolVars, initArgs, sawFull, setBy, otherClaim, taken, csVars, success, retry, saved, func, arg, idx,
                    masked, held, callHist, owners, wrote, seqHist >>

ScanShort(c) ==
    /\ Runs(c)
    /\ pc[c] = "a_scan"
    /\ IF i[c] >= capacity - 1
       THEN /\ pc' = [pc EXCEPT ![c] = "a_ret"]
            /\ i' = i
       ELSE IF taken[i[c]]
       THEN /\ i' = [i EXCEPT ![c] = i[c] + 1]
            /\ pc' = pc
       ELSE /\ pc' = [pc EXCEPT ![c] = "cs_read"]
            /\ i' = i
    /\ seen' = IF i[c] < capacity /\ taken[i[c]]
               THEN [seen EXCEPT ![c] = seen[c] \cup {i[c]}]
               ELSE seen
    /\ UNCHANGED << poolVars, initArgs, sawFull, setBy, otherClaim, taken, csVars, success, retry, saved, func, arg, idx,
                    masked, held, callHist, owners, wrote, seqHist >>

Scan(c) ==
    /\ Runs(c)
    /\ pc[c] = "a_scan"
    /\ IF i[c] >= capacity
       THEN /\ pc' = [pc EXCEPT ![c] = "a_ret"]
            /\ i' = i
       ELSE IF taken[i[c]]
       THEN /\ i' = [i EXCEPT ![c] = i[c] + 1]
            /\ pc' = pc
       ELSE /\ pc' = [pc EXCEPT ![c] = "cs_read"]
            /\ i' = i
    /\ seen' = IF i[c] < capacity /\ taken[i[c]]
               THEN [seen EXCEPT ![c] = seen[c] \cup {i[c]}]
               ELSE seen
    /\ UNCHANGED << poolVars, initArgs, sawFull, setBy, otherClaim, taken, csVars, success, retry, saved, func, arg, idx,
                    masked, held, callHist, owners, wrote, seqHist >>

(***************************************************************************)
(* critical_section_enter: m_critical_section = __get_PRIMASK() is a read   *)
(* of the register and a store to memory, then __disable_irq().             *)
(***************************************************************************)
CsRead(c) ==
    /\ Runs(c)
    /\ pc[c] = "cs_read"
    /\ saved' = [saved EXCEPT ![c] = primask]
    /\ pc' = [pc EXCEPT ![c] = "cs_store"]
    /\ UNCHANGED << poolVars, initArgs, passHist, taken, csVars, i, success, retry, func, arg, idx,
                    masked, held, callHist, owners, wrote, seqHist >>

CsStore(c) ==
    /\ Runs(c)
    /\ pc[c] = "cs_store"
    /\ m_critical_section' = saved[c]
    /\ saved' = [saved EXCEPT ![c] = 0]
    /\ pc' = [pc EXCEPT ![c] = "cs_disable"]
    /\ UNCHANGED << poolVars, initArgs, passHist, taken, primask, i, success, retry, func, arg, idx,
                    masked, held, callHist, owners, wrote, seqHist >>

CsDisableNoMask(c) ==
    /\ Runs(c)
    /\ pc[c] = "cs_disable"
    /\ pc' = [pc EXCEPT ![c] = IF func[c] = "alloc" THEN "a_check" ELSE "f_write"]
    /\ UNCHANGED << poolVars, initArgs, passHist, taken, csVars, localVars, masked, held, callHist,
                    owners, wrote, seqHist >>

CsDisable(c) ==
    /\ Runs(c)
    /\ pc[c] = "cs_disable"
    /\ primask' = 1
    /\ pc' = [pc EXCEPT ![c] = IF func[c] = "alloc" THEN "a_check" ELSE "f_write"]
    /\ UNCHANGED << poolVars, initArgs, passHist, taken, m_critical_section, localVars, masked, held,
                    callHist, owners, wrote, seqHist >>

\* `if (p_buffer->taken)` inside the critical section
CheckAlwaysRetry(c) ==
    /\ Runs(c)
    /\ pc[c] = "a_check"
    /\ retry' = [retry EXCEPT ![c] = TRUE]
    /\ pc' = [pc EXCEPT ![c] = "cs_exit"]
    /\ otherClaim' = [otherClaim EXCEPT ![c] = FALSE]
    /\ UNCHANGED << poolVars, initArgs, seen, sawFull, setBy, taken, csVars, i, success, saved, func, arg, idx,
                    masked, held, callHist, owners, wrote, seqHist >>

CheckSkipped(c) ==
    /\ Runs(c)
    /\ pc[c] = "a_check"
    /\ pc' = [pc EXCEPT ![c] = "a_take"]
    /\ otherClaim' = [otherClaim EXCEPT ![c] = FALSE]
    /\ UNCHANGED << poolVars, initArgs, seen, sawFull, setBy, taken, csVars, i, success, retry, saved, func,
                    arg, idx, masked, held, callHist, owners, wrote, seqHist >>

Check(c) ==
    /\ Runs(c)
    /\ pc[c] = "a_check"
    /\ IF taken[i[c]]
       THEN /\ retry' = [retry EXCEPT ![c] = TRUE]
            /\ pc' = [pc EXCEPT ![c] = "cs_exit"]
       ELSE /\ retry' = retry
            /\ pc' = [pc EXCEPT ![c] = "a_take"]
    /\ otherClaim' = [otherClaim EXCEPT ![c] = FALSE]
    /\ UNCHANGED << poolVars, initArgs, seen, sawFull, setBy, taken, csVars, i, success, saved, func, arg, idx,
                    masked, held, callHist, owners, wrote, seqHist >>

\* p_buffer->taken = true; success = true
TakeNoSuccess(c) ==
    /\ Runs(c)
    /\ pc[c] = "a_take"
    /\ taken' = [taken EXCEPT ![i[c]] = TRUE]
    /\ owners' = [owners EXCEPT ![i[c]] = owners[i[c]] + 1]
    /\ wrote' = {k \in PoolSlots : taken'[k] # taken[k]}
    /\ sawFull' = /\ c # 0 /\ func[0] = "alloc" /\ InCall(0) /\ ~success[0]
                  /\ (sawFull \/ \A k \in PoolSlots : taken'[k])
    /\ setBy' = [setBy EXCEPT ![c] = IF taken[i[c]] THEN setBy[c]
                                     ELSE setBy[c] \cup {i[c]}]
    /\ otherClaim' = [d \in Ctx |-> \/ otherClaim[d]
                                   \/ /\ d # c /\ func[d] = "alloc"
                                      /\ pc[d] \in {"cs_read", "cs_store",
                                                    "cs_disable", "a_check"}
                                      /\ ~taken[i[c]]]
    /\ pc' = [pc EXCEPT ![c] = "cs_exit"]
    /\ UNCHANGED << poolVars, initArgs, seen, csVars, i, success, retry, saved, func, arg, idx, masked,
                    held, callHist, seqHist >>

Take(c) ==
    /\ Runs(c)
    /\ pc[c] = "a_take"
    /\ taken' = [taken EXCEPT ![i[c]] = TRUE]
    /\ success' = [success EXCEPT ![c] = TRUE]
    /\ owners' = [owners EXCEPT ![i[c]] = owners[i[c]] + 1]
    /\ wrote' = {k \in PoolSlots : taken'[k] # taken[k]}
    /\ sawFull' = /\ c # 0 /\ func[0] = "alloc" /\ InCall(0) /\ ~success[0]
                  /\ (sawFull \/ \A k \in PoolSlots : taken'[k])
    /\ setBy' = [setBy EXCEPT ![c] = IF taken[i[c]] THEN setBy[c]
                                     ELSE setBy[c] \cup {i[c]}]
    /\ otherClaim' = [d \in Ctx |-> \/ otherClaim[d]
                                   \/ /\ d # c /\ func[d] = "alloc"
                                      /\ pc[d] \in {"cs_read", "cs_store",
                                                    "cs_disable", "a_check"}
                                      /\ ~taken[i[c]]]
    /\ pc' = [pc EXCEPT ![c] = "cs_exit"]
    /\ UNCHANGED << poolVars, initArgs, seen, csVars, i, retry, saved, func, arg, idx, masked, held,
                    callHist, seqHist >>

\* critical_section_exit: __set_PRIMASK(m_critical_section); then, in buffer_alloc,
\* `break;` and `while (retry)`: a lost race starts the next pass at i = 0
CsExitContinue(c) ==
    /\ Runs(c)
    /\ pc[c] = "cs_exit"
    /\ primask' = m_critical_section
    /\ wrote' = {}
    /\ IF func[c] = "alloc" /\ retry[c]
       THEN /\ retry' = [retry EXCEPT ![c] = FALSE]
            /\ i' = [i EXCEPT ![c] = i[c] + 1]
            /\ pc' = [pc EXCEPT ![c] = "a_scan"]
            /\ seen' = [seen EXCEPT ![c] = {}]
       ELSE /\ pc' = [pc EXCEPT ![c] = IF func[c] = "alloc" THEN "a_ret" ELSE "f_ret"]
            /\ UNCHANGED << retry, i, seen >>
    /\ UNCHANGED << poolVars, initArgs, sawFull, setBy, otherClaim, taken, m_critical_section, success, saved, func, arg,
                    idx, masked, held, argSlot, entryMask, preempted, firstFree,
                    owners, seqHist >>

CsExit(c) ==
    /\ Runs(c)
    /\ pc[c] = "cs_exit"
    /\ primask' = m_critical_section
    /\ wrote' = {}
    /\ IF func[c] = "alloc" /\ retry[c]
       THEN /\ retry' = [retry EXCEPT ![c] = FALSE]
            /\ i' = [i EXCEPT ![c] = 0]
            /\ pc' = [pc EXCEPT ![c] = "a_scan"]
            /\ seen' = [seen EXCEPT ![c] = {}]
       ELSE /\ pc' = [pc EXCEPT ![c] = IF func[c] = "alloc" THEN "a_ret" ELSE "f_ret"]
            /\ UNCHANGED << retry, i, seen >>
    /\ UNCHANGED << poolVars, initArgs, sawFull, setBy, otherClaim, taken, m_critical_section, success, saved, func, arg,
                    idx, masked, held, argSlot, entryMask, preempted, firstFree,
                    owners, seqHist >>

AllocRetRecomputes(c) ==
    /\ Runs(c)
    /\ pc[c] = "a_ret"
    /\ held' = IF RetVal(c) # NULL THEN held \cup {<< RetVal(c), i[c] >>} ELSE held
    /\ fresh' = FreshAfterAlloc(c, RetVal(c))
    /\ reuse' = ReuseAfterAlloc(c, RetVal(c))
    /\ scen' = ScenAfterAlloc(c, RetVal(c))
    /\ Leave(c)
    /\ UNCHANGED << p_memory, initArgs, taken, csVars, masked, owners, wrote, lastInit >>
    /\ capacity' = IF success[c] THEN capacity - 1 ELSE capacity

\* return success ? p_buffer->data : NULL
AllocRet(c) ==
    /\ Runs(c)
    /\ pc[c] = "a_ret"
    /\ held' = IF RetVal(c) # NULL THEN held \cup {<< RetVal(c), i[c] >>} ELSE held
    /\ fresh' = FreshAfterAlloc(c, RetVal(c))
    /\ reuse' = ReuseAfterAlloc(c, RetVal(c))
    /\ scen' = ScenAfterAlloc(c, RetVal(c))
    /\ Leave(c)
    /\ UNCHANGED << poolVars, initArgs, taken, csVars, masked, owners, wrote, lastInit >>

(***************************************************************************)
(* nrf_802154_buffer_allocator_free -> buffer_free                          *)
(***************************************************************************)
\* addresses a caller may pass that lie outside the pool's slots
Outside == {BaseAddr - SlotSize, DataPtr(BaseAddr, capacity)}

\* the call with handle h, up to the assertion: idx = (p_buffer_to_free -
\* p_buffer_pool) / sizeof(...); assert(idx < buffer_pool_len).
\* k is the slot claimed for h, None for a handle that is not held.
FreeEnter(c, h, k) ==
    /\ Runs(c)
    /\ pc[c] = "handler"
    /\ func' = [func EXCEPT ![c] = "free"]
    /\ arg' = [arg EXCEPT ![c] = h]
    /\ idx' = [idx EXCEPT ![c] = FreeIdx(h, p_memory)]
    /\ pc' = [pc EXCEPT ![c] = IF FreeAssert(idx'[c], capacity) THEN "cs_read"
                                ELSE "abort"]
    /\ argSlot' = [argSlot EXCEPT ![c] = k]
    /\ held' = held \ {<< h, k >>}
    /\ entryMask' = [entryMask EXCEPT ![c] = primask]
    /\ preempted' = [preempted EXCEPT ![c] = FALSE]
    /\ fresh' = NoSeq
    /\ lastInit' = NoInit
    /\ UNCHANGED << poolVars, initArgs, passHist, taken, csVars, i, success, retry, saved, masked,
                    firstFree, owners, wrote, reuse, scen >>

\* release of a handle the caller holds
FreeCall(c) == \E e \in held : FreeEnter(c, e[1], e[2])

\* release of an address outside the pool
FreeOutside(c) == \E h \in Outside : FreeEnter(c, h, None)

\* release of a handle of the pool that is not held (released before, or never returned)
FreeNotHeld(c) ==
    \E k \in PoolSlots :
        /\ << DataPtr(p_memory, k), k >> \notin held
        /\ FreeEnter(c, DataPtr(p_memory, k), None)

FreeWriteFirst(c) ==
    /\ Runs(c)
    /\ pc[c] = "f_write"
    /\ taken' = [taken EXCEPT ![0] = FALSE]
    /\ owners' = [owners EXCEPT ![0] = 0]
    /\ wrote' = {k \in PoolSlots : taken'[k] # taken[k]}
    /\ pc' = [pc EXCEPT ![c] = "cs_exit"]
    /\ UNCHANGED << poolVars, initArgs, passHist, csVars, localVars, masked, held, callHist, seqHist >>

\* p_buffer_pool[idx].taken = false
FreeWrite(c) ==
    /\ Runs(c)
    /\ pc[c] = "f_write"
    /\ taken' = [taken EXCEPT ![idx[c]] = FALSE]
    /\ owners' = [owners EXCEPT ![idx[c]] = 0]
    /\ wrote' = {k \in PoolSlots : taken'[k] # taken[k]}
    /\ pc' = [pc EXCEPT ![c] = "cs_exit"]
    /\ UNCHANGED << poolVars, initArgs, passHist, csVars, localVars, masked, held, callHist, seqHist >>

FreeRet(c) ==
    /\ Runs(c)
    /\ pc[c] = "f_ret"
    /\ reuse' = ReuseAfterFree(c, arg[c])
    /\ scen' = ScenAfterFree(c, arg[c])
    /\ Leave(c)
    /\ UNCHANGED << poolVars, initArgs, taken, csVars, masked, held, owners, wrote, fresh,
                    lastInit >>

(***************************************************************************)
(* The callers: interrupt entry and return, and callers that mask           *)
(* interrupts themselves around their calls.                                *)
(***************************************************************************)
IrqEnter(c) ==
    /\ ~Aborted
    /\ c > Running
    /\ pc[c] = "idle"
    /\ primask = 0
    /\ pc' = [pc EXCEPT ![c] = "handler"]
    /\ preempted' = [d \in Ctx |-> preempted[d] \/ InCall(d)]
    /\ firstFree' = [d \in Ctx |-> IF InCall(d) THEN None ELSE firstFree[d]]
    /\ IF \E d \in Ctx : InCall(d)
       THEN fresh' = NoSeq /\ reuse' = NoReuse /\ scen' = NoScen
       ELSE UNCHANGED << fresh, reuse, scen >>
    /\ UNCHANGED << poolVars, initArgs, passHist, taken, csVars, localVars, masked, held, argSlot,
                    entryMask, owners, wrote, lastInit >>

IrqExit(c) ==
    /\ Runs(c)
    /\ c > 0
    /\ pc[c] = "handler"
    /\ ~masked[c]
    /\ pc' = [pc EXCEPT ![c] = "idle"]
    /\ UNCHANGED << poolVars, initArgs, passHist, taken, csVars, localVars, masked, held, callHist,
                    owners, wrote, seqHist >>

Mask(c) ==
    /\ Runs(c)
    /\ pc[c] = "handler"
    /\ ~masked[c]
    /\ primask = 0
    /\ primask' = 1
    /\ masked' = [masked EXCEPT ![c] = TRUE]
    /\ UNCHANGED << poolVars, initArgs, passHist, taken, m_critical_section, pc, localVars, held,
                    callHist, owners, wrote, seqHist >>

Unmask(c) ==
    /\ Runs(c)
    /\ pc[c] = "handler"
    /\ masked[c]
    /\ primask' = 0
    /\ masked' = [masked EXCEPT ![c] = FALSE]
    /\ UNCHANGED << poolVars, initArgs, passHist, taken, m_critical_section, pc, localVars, held,
                    callHist, owners, wrote, seqHist >>

(***************************************************************************)
(* Specifications.                                                          *)
(*   Spec        calls from thread level and from preempting handlers;      *)
(*               callers release only handles they hold.                    *)
(*   SpecFair    Spec, where the running context always takes its next step.*)
(*   SpecMasked  Spec, with callers that mask interrupts around their calls.*)
(*   SpecNested  Spec, with handlers of DeepIrqLevel levels that preempt    *)
(*               each other.                                                *)
(*   SpecSeq     no handler starts while a call is open; callers also       *)
(*               release addresses outside the pool.                        *)
(*   SpecMisuse  SpecSeq, with callers that also release handles of the     *)
(*               pool they do not hold.                                     *)
(*   SpecAny     Spec, with callers that also release addresses outside the *)
(*               pool.                                                      *)
(***************************************************************************)
Init == InitWith(MemSizes(MaxSlots))

Initialize ==
    \E memsize \in MemSizes(MaxSlots), mem \in {NULL, BaseAddr}, b \in BOOLEAN :
        InitCall(memsize, mem, b)

AllocStep(c) ==
    \/ AllocCall(c)
    \/ Scan(c)
    \/ Check(c)
    \/ Take(c)
    \/ AllocRet(c)

CsStep(c) ==
    \/ CsRead(c)
    \/ CsStore(c)
    \/ CsDisable(c)
    \/ CsExit(c)

FreeStep(c) ==
    \/ FreeCall(c)
    \/ FreeWrite(c)
    \/ FreeRet(c)

\* a step of c inside a call
CallStep(c) ==
    \/ Scan(c) \/ Check(c) \/ Take(c) \/ AllocRet(c)
    \/ CsStep(c)
    \/ FreeWrite(c) \/ FreeRet(c)

Calls ==
    \/ \E c \in Ctx : AllocStep(c)
    \/ \E c \in Ctx : CsStep(c)
    \/ \E c \in Ctx : FreeStep(c)

Next ==
    \/ Initialize
    \/ Calls
    \/ \E c \in Levels : IrqEnter(c)
    \/ \E c \in Ctx : IrqExit(c)

Spec == Init /\ [][Next]_vars

\* The core executes the running context's next instruction, so a context that
\* can run again and again makes progress, and a handler returns in the end.
SpecFair == Spec /\ \A c \in Ctx : SF_vars(CallStep(c)) /\ SF_vars(IrqExit(c))

NextMasked ==
    \/ Next
    \/ \E c \in Ctx : Mask(c)
    \/ \E c \in Ctx : Unmask(c)

SpecMasked == Init /\ [][NextMasked]_vars

NextNested ==
    \/ Next
    \/ \E c \in Ctx : IrqEnter(c)

SpecNested == Init /\ [][NextNested]_vars

InitSeq == InitWith(MemSizes(SeqSlots))

InitializeSeq ==
    \E memsize \in MemSizes(SeqSlots), mem \in {NULL, BaseAddr}, b \in BOOLEAN :
        InitCall(memsize, mem, b)

IrqEnterIdle(c) == (\A d \in Ctx : ~InCall(d)) /\ IrqEnter(c)

NextSeq ==
    \/ InitializeSeq
    \/ Calls
    \/ \E c \in Ctx : FreeOutside(c)
    \/ \E c \in Levels : IrqEnterIdle(c)
    \/ \E c \in Ctx : IrqExit(c)

SpecSeq == InitSeq /\ [][NextSeq]_vars

NextMisuse ==
    \/ NextSeq
    \/ \E c \in Ctx : FreeNotHeld(c)

SpecMisuse == InitSeq /\ [][NextMisuse]_vars

NextAny ==
    \/ Next
    \/ \E c \in Ctx : FreeOutside(c)

SpecAny == Init /\ [][NextAny]_vars

(***************************************************************************)
(* Properties.                                                             *)
(***************************************************************************)
\* c's allocate call has claimed slot i[c] and has not returned yet
Claimed(c) == func[c] = "alloc" /\ success[c]

\* the slots of the handles that are held
HeldSlots == {e[2] : e \in held}

\* C1: under every interleaving of allocate and release calls from thread level
\* and from preempting handlers, no slot is double-allocated: a slot is claimed
\* at most once between two releases of it, a call never claims a slot whose
\* handle is held, and two open calls never claim the same slot.
NoDoubleAllocation ==
    /\ \A k \in PoolSlots : owners[k] <= 1
    /\ \A c \in Ctx : Claimed(c) =>
          /\ i[c] \notin HeldSlots
          /\ \A d \in Ctx \ {c} : Claimed(d) => i[d] # i[c]

\* a call is at its re-check under the lock, and the slot it read as free has
\* meanwhile been claimed and returned by a preempting call
RaceLost ==
    \E c \in Ctx : pc[c] = "a_check" /\ taken[i[c]] /\ i[c] \in HeldSlots

\* C2: capacity back-to-back allocate calls after initialize, with no release,
\* return non-null handles inside the pool's memory, each at the start of a
\* different slot, and the call after them returns NULL.
ConsecutiveAllocations ==
    fresh.ok =>
        \A n \in 1..Len(fresh.res) :
            IF n <= capacity
            THEN /\ fresh.res[n] # NULL
                 /\ fresh.res[n] >= p_memory
                 /\ fresh.res[n] < p_memory + capacity * SlotSize
                 /\ (fresh.res[n] - p_memory) % SlotSize = DataOffset
                 /\ \A m \in 1..(n - 1) :
                       /\ fresh.res[m] # fresh.res[n]
                       /\ (fresh.res[m] - p_memory) \div SlotSize
                              # (fresh.res[n] - p_memory) \div SlotSize
            ELSE fresh.res[n] = NULL

\* a pool of three slots was exhausted by three allocates and the fourth has returned
PoolExhausted == fresh.ok /\ capacity = SeqSlots /\ Len(fresh.res) = capacity + 1

ReleaseClearsClaimedSlot ==
    /\ \A c \in Ctx : func[c] = "free" /\ argSlot[c] # None =>
          /\ idx[c] = argSlot[c]
          /\ idx[c] < capacity
          /\ pc[c] # "abort"
          /\ pc[c] = "cs_exit" => wrote = {argSlot[c]} /\ ~taken[argSlot[c]]
          /\ pc[c] = "f_ret" /\ ~preempted[c] => ~taken[argSlot[c]]
    /\ reuse.stage = 3 => reuse.r = reuse.h

\* allocate, release of its handle and a second allocate have run, on a pool in
\* which a lower slot stays occupied
SlotReused == reuse.stage = 3 /\ reuse.h # NULL /\ reuse.h # DataPtr(p_memory, 0)

\* C5 as claimed: a release of a handle of the pool that is not held (its slot
\* is already free) is stopped by the assertion.
DoubleFreeAsserts ==
    \A c \in Ctx :
        /\ func[c] = "free"
        /\ argSlot[c] = None
        /\ arg[c] \in {DataPtr(p_memory, k) : k \in PoolSlots}
        => pc[c] = "abort"

\* C6: a release whose index, computed in unsigned word arithmetic, is not below
\* capacity stops at the assertion: the call never reaches the critical section,
\* and the step that stops it changes no flag and neither PRIMASK nor the saved
\* PRIMASK.
OutOfRangeReleaseAsserts ==
    /\ [](\A c \in Ctx :
            func[c] = "free" /\ ((arg[c] - p_memory) % WordMod) \div SlotSize >= capacity
                => pc[c] = "abort")
    /\ [][\A c \in Ctx : pc[c] # "abort" /\ pc'[c] = "abort" /\ func'[c] = "free"
                            => UNCHANGED << taken, primask, m_critical_section >>]_vars

\* a release of an address below the pool's base has stopped at the assertion
ReleaseBelowBaseStopped ==
    \E c \in Ctx : pc[c] = "abort" /\ func[c] = "free" /\ arg[c] < p_memory
                   /\ capacity > 0

\* C7 as claimed: when a call is about to return, PRIMASK is what it was when
\* the call was entered.
MaskRestored ==
    \A c \in Ctx :
        Runs(c) /\ pc[c] \in {"a_ret", "f_ret"} => primask = entryMask[c]

\* a call entered with interrupts enabled is about to return with them masked
ReturnsMasked ==
    \E c \in Ctx : Runs(c) /\ pc[c] \in {"a_ret", "f_ret"}
                   /\ entryMask[c] = 0 /\ primask = 1 /\ preempted[c]

\* C8: an allocate call that was not preempted claims the lowest slot that was
\* free when it was called and fails exactly when none was; and in the scenario
\* on three slots A, B, C are distinct and non-null, D is NULL, E is B, and the
\* three allocates after the release of A, C and E succeed.
FirstFit ==
    /\ \A c \in Ctx : pc[c] = "a_ret" /\ ~preempted[c] =>
          /\ success[c] <=> firstFree[c] < capacity
          /\ success[c] => i[c] = firstFree[c]
          /\ RetVal(c) = IF firstFree[c] < capacity
                         THEN p_memory + firstFree[c] * SlotSize + DataOffset
                         ELSE NULL
    /\ scen.n # None =>
          /\ \A n \in 1..Len(scen.got) : (n = 4) <=> (scen.got[n] = NULL)
          /\ \A m, n \in 1..Len(scen.got) : m < n /\ n <= 3 => scen.got[m] # scen.got[n]
          /\ Len(scen.got) >= 5 => scen.got[5] = scen.got[2]
          /\ \A m, n \in 6..Len(scen.got) : m < n => scen.got[m] # scen.got[n]

\* the scenario has run to its end
ScenarioDone == scen.n = ScenLen /\ Len(scen.got) = 8

\* C9: when initialize has returned, capacity is the truncated quotient of the
\* memory size and the slot size, and each of the capacity slots is free.
InitializeFreesAll ==
    lastInit.size # None =>
        /\ capacity * SlotSize <= lastInit.size
        /\ lastInit.size < (capacity + 1) * SlotSize
        /\ DOMAIN taken = 0..(capacity - 1)
        /\ \A k \in 0..(capacity - 1) : taken[k] = FALSE

\* initialize has returned from a call on a pool with occupied slots, with a
\* memory size that leaves a remainder
ReinitializedOccupied ==
    /\ lastInit.size # None /\ lastInit.again
    /\ lastInit.size % SlotSize # 0
    /\ capacity >= 2

\* C10: initialize with a memory size below the slot size leaves capacity 0, and
\* an allocate call on a pool of capacity 0 goes from its loop condition to its
\* return with NULL: it never is at a step of the critical section or at a flag,
\* and PRIMASK stays 0.
EmptyPoolAllocFails ==
    /\ lastInit.size # None /\ lastInit.size < SlotSize => capacity = 0
    /\ capacity = 0 =>
          /\ primask = 0
          /\ \A c \in Ctx : func[c] = "alloc" =>
                /\ pc[c] \in {"a_scan", "a_ret"}
                /\ i[c] = 0
                /\ pc[c] = "a_ret" => RetVal(c) = NULL

\* on a pool of capacity 0 with non-null memory, a handler's allocate call that
\* preempted an allocate call of thread level is about to return
EmptyPoolPreemptingAlloc ==
    /\ capacity = 0 /\ p_memory # NULL
    /\ \E c \in Ctx \ {0} : pc[c] = "a_ret" /\ pc[0] = "a_scan"

\* C11: initialize is stopped by its assertion exactly when the computed capacity
\* is above 0 and the memory pointer is NULL: a stopped call had such arguments
\* and its step changed neither base, capacity nor any flag; a call that
\* returned had not, and recorded the capacity computed from its memory size.
InitAssertsOnNullMemory ==
    /\ [](/\ initArgs.size # None =>
                /\ pc[0] = "abort" /\ func[0] = "init"
                /\ initArgs.size \div SlotSize > 0
                /\ initArgs.mem = NULL
          /\ lastInit.size # None =>
                /\ lastInit.size \div SlotSize > 0 => p_memory # NULL
                /\ capacity = lastInit.size \div SlotSize)
    /\ [][initArgs' # initArgs => UNCHANGED << p_memory, capacity, taken >>]_vars

\* initialize with NULL memory was stopped on a pool that keeps its base, its
\* capacity and an occupied slot
InitStoppedOnOccupiedPool ==
    /\ pc[0] = "abort" /\ func[0] = "init"
    /\ initArgs.mem = NULL /\ initArgs.size \div SlotSize # capacity
    /\ p_memory # NULL
    /\ \E k \in PoolSlots : taken[k]

\* c is between critical_section_enter and critical_section_exit
HoldsCs(c) == pc[c] \in {"a_check", "a_take", "cs_exit", "f_write"}

\* the step changes the flag of a slot
FlagWritten == \E k \in DOMAIN taken \cap DOMAIN taken' : taken'[k] # taken[k]

\* the step is a return of initialize
InitReturns == lastInit'.size # None /\ pc[0] = "handler" /\ pc'[0] = "handler"

\* C12 as claimed: every step that changes a flag is taken by a context that is
\* inside the critical section, with interrupts disabled.
FlagWritesUnderLock ==
    [][FlagWritten => \E c \in Ctx : Runs(c) /\ HoldsCs(c) /\ primask = 1]_vars

\* C12 as amended: a step of allocate or release that changes a flag is taken
\* inside the critical section with interrupts disabled; the only other steps
\* that change a flag are those of initialize, which runs outside the critical
\* section, with PRIMASK as its caller left it.
AllocFreeWritesUnderLock ==
    [][FlagWritten =>
          IF InitReturns
          THEN /\ \A c \in Ctx : ~HoldsCs(c)
               /\ UNCHANGED << primask, m_critical_section >>
          ELSE \E c \in Ctx : /\ Runs(c) /\ primask = 1
                              /\ pc[c] \in {"a_take", "f_write"}
                              /\ pc'[c] = "cs_exit"]_vars

\* a handler that preempted an open call of thread level has written a flag
\* inside its critical section
WroteUnderLock ==
    \E c \in Ctx \ {0} : pc[c] = "cs_exit" /\ wrote # {} /\ primask = 1 /\ InCall(0)

\* C17 as claimed: an allocate call of thread level that is about to return NULL
\* has seen every slot of the pool occupied at some instant since it was called.
NullOnlyIfPoolWasFull ==
    func[0] = "alloc" /\ pc[0] = "a_ret" /\ ~success[0] => sawFull

\* an allocate call is about to return NULL although at every instant since it
\* was called some slot was free, and one is free now
SpuriousExhaustion ==
    /\ func[0] = "alloc" /\ pc[0] = "a_ret" /\ ~success[0]
    /\ ~sawFull
    /\ \E k \in PoolSlots : ~taken[k]

\* C13: an allocate call that lost the race leaves the critical section and
\* goes on at index 0 with PRIMASK as at its entry; and a call that is about to
\* return NULL has, in its current pass, read the flag of every slot
\* 0..capacity-1 as occupied and stands at index capacity.
RestartFromZero ==
    /\ [][\A c \in Ctx :
            pc[c] = "cs_exit" /\ func[c] = "alloc" /\ retry[c] /\ pc'[c] # pc[c]
                => /\ pc'[c] = "a_scan" /\ i'[c] = 0
                   /\ primask' = entryMask[c]]_vars
    /\ [](\A c \in Ctx :
            func[c] = "alloc" /\ pc[c] = "a_ret" /\ ~success[c]
                => seen[c] = 0..(capacity - 1) /\ i[c] = capacity)

\* a call lost the race for a slot above slot 0 and is about to restart
LostRaceAboveZero ==
    \E c \in Ctx : pc[c] = "cs_exit" /\ func[c] = "alloc" /\ retry[c] /\ i[c] > 0

\* C14: an allocate call goes to the critical section only from a lock-free
\* read that found the flag at i free; inside it, its steps keep i and change
\* no flag but that of slot i; leaving it ends the pass (return, or a new pass
\* from index 0); and a pass that has read every slot as occupied goes to the
\* return with NULL, changing neither PRIMASK, the saved PRIMASK nor a flag.
LockOnlyForCandidate ==
    [][\A c \in Ctx : func[c] = "alloc" =>
          /\ pc'[c] = "cs_read" /\ pc[c] # "cs_read"
                => pc[c] = "a_scan" /\ i[c] < capacity /\ ~taken[i[c]] /\ i'[c] = i[c]
          /\ pc[c] \in {"a_check", "a_take"} /\ pc'[c] # pc[c]
                => /\ i'[c] = i[c]
                   /\ \A k \in PoolSlots \ {i[c]} : taken'[k] = taken[k]
          /\ pc[c] = "cs_exit" /\ pc'[c] # pc[c]
                => \/ pc'[c] = "a_ret"
                   \/ pc'[c] = "a_scan" /\ i'[c] = 0 /\ seen'[c] = {}
          /\ pc[c] = "a_scan" /\ seen[c] = 0..(capacity - 1) /\ pc'[c] # pc[c]
                => /\ pc'[c] = "a_ret" /\ ~success'[c]
                   /\ UNCHANGED << primask, m_critical_section, taken >>]_vars

\* a call is inside the critical section for a candidate above slot 0, after its
\* pass read every lower slot as occupied
CandidateAfterOccupied ==
    \E c \in Ctx : pc[c] = "a_take" /\ i[c] > 0 /\ seen[c] = 0..(i[c] - 1)

\* C15: every slot is free when initialize has returned; in every step that is
\* not initialize, a flag goes from free to occupied only in the claiming step
\* of an allocate call whose candidate is that slot, and from occupied to free
\* only in the write of a release call whose handle is that slot's address; a
\* call that claimed a slot keeps it as its candidate and returns its address.
SlotStateMachine ==
    /\ [](/\ lastInit.size # None => \A k \in PoolSlots : ~taken[k]
          /\ \A c \in Ctx : pc[c] = "a_ret" /\ success[c] =>
                RetVal(c) = p_memory + i[c] * SlotSize + DataOffset)
    /\ [][~InitReturns =>
            /\ DOMAIN taken' = DOMAIN taken
            /\ \A k \in DOMAIN taken :
                  /\ ~taken[k] /\ taken'[k] =>
                        \E c \in Ctx : /\ func[c] = "alloc" /\ pc[c] = "a_take"
                                       /\ i[c] = k /\ pc'[c] = "cs_exit"
                                       /\ success'[c]
                  /\ taken[k] /\ ~taken'[k] =>
                        \E c \in Ctx : /\ func[c] = "free" /\ pc[c] = "f_write"
                                       /\ pc'[c] = "cs_exit"
                                       /\ arg[c] = p_memory + k * SlotSize + DataOffset
            /\ \A c \in Ctx : func[c] = "alloc" /\ success[c] /\ func'[c] = "alloc"
                                => success'[c] /\ i'[c] = i[c]]_vars

\* a handler's release has cleared a flag while an allocate call of thread
\* level is open
ReleasedDuringAlloc ==
    \E c \in Ctx \ {0} : /\ func[c] = "free" /\ pc[c] = "cs_exit" /\ wrote # {}
                         /\ func[0] = "alloc" /\ InCall(0)

\* C16: base and capacity change in no step of allocate or release, whether the
\* call succeeds, fails or is stopped by an assertion: they change only when
\* initialize returns.
PoolFixedAfterInit ==
    [][p_memory' # p_memory \/ capacity' # capacity => InitReturns]_vars

\* a release was stopped by the assertion while another call is open, on a
\* pool with handles outstanding
AssertedWithCallOpen ==
    \E c \in Ctx \ {0} : /\ pc[c] = "abort" /\ func[c] = "free"
                         /\ InCall(0) /\ held # {}

\* C18: an allocate call changes at most one flag from free to occupied; when it
\* is about to return NULL it has changed none, and when it is about to return
\* an address it has changed exactly one, that of the slot whose data address
\* it returns.
ResultMatchesEffect ==
    \A c \in Ctx : func[c] = "alloc" =>
        /\ Cardinality(setBy[c]) <= 1
        /\ pc[c] = "a_ret" =>
              IF RetVal(c) = NULL
              THEN setBy[c] = {}
              ELSE \E k \in PoolSlots :
                      /\ setBy[c] = {k}
                      /\ RetVal(c) = p_memory + k * SlotSize + DataOffset

\* a call that was preempted is about to return slot 1, the one flag it set,
\* while slot 0 is held by another caller
ReturnsItsOnlyClaim ==
    \E c \in Ctx : /\ func[c] = "alloc" /\ pc[c] = "a_ret" /\ preempted[c]
                   /\ setBy[c] = {1} /\ RetVal(c) # NULL
                   /\ 0 \in HeldSlots

\* C19: whenever no call is in progress, the occupied slots are exactly the
\* slots of the handles that were returned and not yet released; so with no
\* handle outstanding every slot is free.
NoLeakNoPhantom ==
    (\A c \in Ctx : ~InCall(c)) =>
        /\ {k \in PoolSlots : taken[k]} = HeldSlots
        /\ held = {} => \A k \in PoolSlots : ~taken[k]

\* no call is in progress, inside a handler, and the only handle outstanding
\* is that of slot 1: slot 0 was claimed and released again
QuiescentWithHole ==
    /\ \A c \in Ctx : ~InCall(c)
    /\ \E c \in Ctx \ {0} : pc[c] = "handler"
    /\ capacity = 2 /\ HeldSlots = {1} /\ taken[1] /\ ~taken[0]

\* C20: the re-check of an allocate call sets retry only if another context
\* changed a flag from free to occupied since the call's lock-free read found
\* its candidate free; each such claim is counted for one re-check only, so the
\* restarts of a call never outnumber the claims made by contexts that
\* preempted it, and a call that was not preempted never restarts.
RetryOnlyAfterOtherClaim ==
    /\ [][\A c \in Ctx :
            func[c] = "alloc" /\ pc[c] = "a_check" /\ retry'[c] => otherClaim[c]]_vars
    /\ [](\A c \in Ctx : func[c] = "alloc" /\ retry[c] => preempted[c])
    /\ [](\A c \in Ctx : func[c] = "alloc" /\ pc[c] = "a_check" /\ ~otherClaim[c]
                            => ~taken[i[c]])

\* a call that was preempted is at its re-check, its candidate was claimed by
\* another context since its lock-free read, and it is about to set retry
RecheckAfterOtherClaim ==
    \E c \in Ctx : /\ func[c] = "alloc" /\ pc[c] = "a_check" /\ preempted[c]
                   /\ otherClaim[c] /\ taken[i[c]] /\ ~retry[c]

====
